---- MODULE Spec2Model ----
(***************************************************************************)
(* Model of app.py: the crawler filter, the route handler dynamic_page,    *)
(* the JSON file cache (get_cached_content / cache_content) and the        *)
(* outbound call of generate_content, run by concurrent request handlers.  *)
(* Text is a sequence of one-character strings; an error page or a JSON    *)
(* delimiter that the code treats as an opaque literal is one element.     *)
(***************************************************************************)
EXTENDS Integers, Sequences, FiniteSets, TLC

(* ------------------------------ bounds --------------------------------- *)

\* Number of request handlers in flight (Flask serves each request in its own thread).
NumReqs == 2

\* Elements handed to the operating system by one write of the buffered file
\* object (io.DEFAULT_BUFFER_SIZE scaled down to the model's record lengths).
BufSize == 2

(* --------------------------- character classes ------------------------- *)

UpperChars ==
  <<"A", "B", "C", "D", "E", "F", "G", "H", "I", "J", "K", "L", "M", "N", "O", "P", "Q", "R", "S", "T", "U", "V", "W", "X", "Y", "Z">>

LowerChars ==
  <<"a", "b", "c", "d", "e", "f", "g", "h", "i", "j", "k", "l", "m", "n", "o", "p", "q", "r", "s", "t", "u", "v", "w", "x", "y", "z">>

DigitChars ==
  <<"0", "1", "2", "3", "4", "5", "6", "7", "8", "9">>

Range(s) == {s[i] : i \in 1..Len(s)}

AlnumChars == Range(UpperChars) \cup Range(LowerChars) \cup Range(DigitChars)

UpperSet == Range(UpperChars)

\* The lower-case letter of each upper-case letter.
LowerOf == [c \in UpperSet |->
              LowerChars[CHOOSE i \in 1..Len(UpperChars) : UpperChars[i] = c]]

\* str.lower() on one character.
ToLower(c) == IF c \in UpperSet THEN LowerOf[c] ELSE c

\* str.lower()
RECURSIVE Lower(_)
Lower(s) == IF Len(s) = 0 THEN <<>> ELSE <<ToLower(Head(s))>> \o Lower(Tail(s))

\* Python's "sub in s" on strings.
Contains(s, sub) ==
  \E i \in 0..(Len(s) - Len(sub)) : SubSeq(s, i + 1, i + Len(sub)) = sub

\* str.endswith
EndsWith(s, suf) ==
  /\ Len(s) >= Len(suf)
  /\ SubSeq(s, Len(s) - Len(suf) + 1, Len(s)) = suf

NL == "\n"

(* ----------------------------- crawler filter -------------------------- *)

BLOCKED_USER_AGENTS ==
  <<   <<"C", "C", "B", "o", "t">>,
       <<"G", "P", "T", "B", "o", "t">>,
       <<"C", "h", "a", "t", "G", "P", "T", "-", "U", "s", "e", "r">>,
       <<"G", "o", "o", "g", "l", "e", "-", "E", "x", "t", "e", "n", "d", "e", "d">>,
       <<"a", "n", "t", "h", "r", "o", "p", "i", "c", "-", "a", "i">>,
       <<"C", "l", "a", "u", "d", "e", "-", "W", "e", "b">>,
       <<"O", "m", "g", "i", "l", "i", "b", "o", "t">>,
       <<"F", "a", "c", "e", "b", "o", "o", "k", "B", "o", "t">>,
       <<"B", "y", "t", "e", "s", "p", "i", "d", "e", "r">>,
       <<"c", "r", "a", "w", "l", "e", "r">>,
       <<"s", "p", "i", "d", "e", "r">>,
       <<"b", "o", "t">>,
       <<"s", "c", "r", "a", "p", "e", "r">>,
       <<"a", "r", "c", "h", "i", "v", "e", ".", "o", "r", "g">>,
       <<"G", "o", "o", "g", "l", "e", "b", "o", "t">>,
       <<"B", "i", "n", "g", "b", "o", "t">>,
       <<"S", "l", "u", "r", "p">>,
       <<"D", "u", "c", "k", "D", "u", "c", "k", "B", "o", "t">>,
       <<"B", "a", "i", "d", "u", "s", "p", "i", "d", "e", "r">>,
       <<"Y", "a", "n", "d", "e", "x", "B", "o", "t">>,
       <<"S", "o", "g", "o", "u">>  >>

\* A network is its four address octets and its prefix length.
META_IP_RANGES ==
  << [net |-> <<157, 240, 0, 0>>, prefix |-> 16],
     [net |-> <<69, 63, 176, 0>>, prefix |-> 20],
     [net |-> <<66, 220, 144, 0>>, prefix |-> 20],
     [net |-> <<66, 220, 144, 0>>, prefix |-> 21],
     [net |-> <<69, 63, 184, 0>>, prefix |-> 21],
     [net |-> <<69, 63, 176, 0>>, prefix |-> 21],
     [net |-> <<74, 119, 76, 0>>, prefix |-> 22] >>

\* The client address as the groups of its textual form: four decimal octets
\* (IPv4), eight groups (IPv6), anything else does not parse.
\* ipaddress.ip_address accepts it (no ValueError):
IpParses(ip) ==
  \/ Len(ip) = 4 /\ \A i \in 1..4 : ip[i] \in 0..255
  \/ Len(ip) = 8 /\ \A i \in 1..8 : ip[i] \in 0..65535

Pow2(n) == IF n = 0 THEN 1 ELSE IF n = 1 THEN 2 ELSE IF n = 2 THEN 4
           ELSE IF n = 3 THEN 8 ELSE IF n = 4 THEN 16 ELSE IF n = 5 THEN 32
           ELSE IF n = 6 THEN 64 ELSE IF n = 7 THEN 128 ELSE 256

\* Network bits of the prefix that fall in octet i.
OctetBits(prefix, i) ==
  LET b == prefix - 8 * (i - 1) IN IF b < 0 THEN 0 ELSE IF b > 8 THEN 8 ELSE b

\* ip_addr in ipaddress.ip_network(range): an IPv6 address is in no IPv4 network.
InNetwork(ip, n) ==
  /\ Len(ip) = 4
  /\ \A i \in 1..4 :
       LET h == Pow2(8 - OctetBits(n.prefix, i)) IN ip[i] \div h = n.net[i] \div h

is_meta_ip(ip) ==
  IF IpParses(ip)
    THEN \E k \in 1..Len(META_IP_RANGES) : InNetwork(ip, META_IP_RANGES[k])
    ELSE FALSE

\* bot.lower() for each bot of a list.
RECURSIVE LowerAll(_)
LowerAll(bots) ==
  IF Len(bots) = 0 THEN <<>> ELSE <<Lower(Head(bots))>> \o LowerAll(Tail(bots))

BlockedLower == LowerAll(BLOCKED_USER_AGENTS)

\* A mutation of the User-Agent test that compares without lower-casing.
UaBlockedCaseSensitive(ua) ==
  \E k \in 1..Len(BLOCKED_USER_AGENTS) : Contains(ua, BLOCKED_USER_AGENTS[k])

\* The User-Agent test of block_crawlers; a missing header is the empty string.
UaBlocked(ua) ==
  LET user_agent == Lower(ua)
  IN \E k \in 1..Len(BlockedLower) : Contains(user_agent, BlockedLower[k])

\* A mutation of block_crawlers that skips the address test.
block_crawlers_ua_only(ua, ip) == UaBlocked(ua)

\* block_crawlers aborts the request with 403.
block_crawlers(ua, ip) == UaBlocked(ua) \/ is_meta_ip(ip)

(* ---------------------------- response headers ------------------------- *)

\* The headers add_security_headers sets, in its order.
SECURITY_HEADERS ==
  << [name |-> "X-Content-Type-Options", value |-> "nosniff"],
     [name |-> "X-Frame-Options", value |-> "DENY"],
     [name |-> "X-XSS-Protection", value |-> "1; mode=block"],
     [name |-> "Content-Security-Policy",
      value |-> "default-src 'self'; style-src 'unsafe-inline' https://fonts.googleapis.com; font-src https://fonts.gstatic.com; script-src 'unsafe-inline'"],
     [name |-> "X-Robots-Tag", value |-> "noindex, nofollow, noarchive"],
     [name |-> "X-Crawler", value |-> "no-crawl"],
     [name |-> "CommonCrawl", value |-> "no-crawl"] >>

\* response.headers[name] = value on the response's header list: the header
\* takes the place of the first one of its name, others of the name go, and it
\* goes to the end of the list when the name is new.
RECURSIVE SetHeader(_, _)
SetHeader(hs, h) ==
  IF Len(hs) = 0 THEN <<h>>
  ELSE IF Head(hs).name = h.name
    THEN <<h>> \o SelectSeq(Tail(hs), LAMBDA x : x.name # h.name)
    ELSE <<Head(hs)>> \o SetHeader(Tail(hs), h)

RECURSIVE SetHeaders(_, _)
SetHeaders(hs, new) ==
  IF Len(new) = 0 THEN hs ELSE SetHeaders(SetHeader(hs, Head(new)), Tail(new))

\* The response Flask builds from a view's return value, a redirect or an
\* aborted request, before the after_request functions run.
MakeResponse(code) ==
  [status |-> code,
   headers |->
     IF code = 302
       THEN <<[name |-> "Content-Type", value |-> "text/html; charset=utf-8"],
              [name |-> "Location", value |-> "/<path>.html"]>>
       ELSE <<[name |-> "Content-Type", value |-> "text/html; charset=utf-8"]>>]

WithSecurityHeaders(response) ==
  [response EXCEPT !.headers = SetHeaders(@, SECURITY_HEADERS)]

\* A mutation of add_security_headers that leaves error responses as they are.
add_security_headers_pages_only(response) ==
  IF response.status >= 400 THEN response ELSE WithSecurityHeaders(response)

\* add_security_headers, registered with after_request: Flask runs it on every
\* response, those of aborted requests and of unhandled exceptions included.
add_security_headers(response) == WithSecurityHeaders(response)

\* The status codes the server answers with.
StatusCodes == <<200, 302, 400, 403, 500>>

\* The response of each status code as it leaves the server: as Flask built it,
\* then through the after_request function.
RECURSIVE AfterRequest(_)
AfterRequest(codes) ==
  IF Len(codes) = 0 THEN <<>>
  ELSE <<add_security_headers(MakeResponse(Head(codes)))>> \o AfterRequest(Tail(codes))

Responses == AfterRequest(StatusCodes)

Response(code) ==
  Responses[CHOOSE i \in 1..Len(StatusCodes) : StatusCodes[i] = code]

(* ------------------------- path validation and key --------------------- *)

Html == <<".", "h", "t", "m", "l">>

RobotsTxt == <<"r", "o", "b", "o", "t", "s", ".", "t", "x", "t">>

\* The class [a-zA-Z0-9-_/] of the validation pattern.
StrictChars == AlnumChars \cup {"-", "_", "/"}

\* The class [a-zA-Z0-9-_.] kept by get_cache_path.
KeyChars == AlnumChars \cup {"-", "_", "."}

\* path[:-5] if path.endswith('.html') else path
BasePath(path) ==
  IF EndsWith(path, Html) THEN SubSeq(path, 1, Len(path) - Len(Html)) ELSE path

\* re.match(r'^[a-zA-Z0-9-_/]+$', base_path): one or more class characters up
\* to the end of the string, where $ also matches just before a final newline.
ValidPath(base) ==
  \/ /\ Len(base) >= 1
     /\ \A i \in 1..Len(base) : base[i] \in StrictChars
  \/ /\ Len(base) >= 2
     /\ base[Len(base)] = NL
     /\ \A i \in 1..(Len(base) - 1) : base[i] \in StrictChars

\* re.sub(r'[^a-zA-Z0-9-_.]', '', path)
SafePath(path) == SelectSeq(path, LAMBDA c : c \in KeyChars)

\* The cache file's name: the MD5 digest of the safe path, the digest taken as
\* injective (the name is the digest's input, tagged).
get_cache_path(path) == <<"md5">> \o SafePath(path)

(* ------------------------- generated text clean-up --------------------- *)

\* The backtick character (the module's strings cannot hold it literally).
BT == "<backtick>"

FenceHtml == <<BT, BT, BT, "h", "t", "m", "l">>

Fence == <<BT, BT, BT>>

\* str.replace(pat, ""): every non-overlapping occurrence, left to right.
RECURSIVE Remove(_, _)
Remove(s, pat) ==
  IF Len(s) < Len(pat) THEN s
  ELSE IF SubSeq(s, 1, Len(pat)) = pat
    THEN Remove(SubSeq(s, Len(pat) + 1, Len(s)), pat)
    ELSE <<Head(s)>> \o Remove(Tail(s), pat)

\* str.split('\n')
RECURSIVE Split(_)
Split(s) ==
  IF \A i \in 1..Len(s) : s[i] # NL THEN <<s>>
  ELSE LET i == CHOOSE j \in 1..Len(s) :
                  s[j] = NL /\ \A k \in 1..(j - 1) : s[k] # NL
       IN <<SubSeq(s, 1, i - 1)>> \o Split(SubSeq(s, i + 1, Len(s)))

\* '\n'.join(lines)
RECURSIVE Join(_)
Join(lines) ==
  IF Len(lines) = 0 THEN <<>>
  ELSE IF Len(lines) = 1 THEN lines[1]
  ELSE lines[1] \o <<NL>> \o Join(Tail(lines))

Whitespace == {" ", NL, "\t", "\r"}

\* str.strip()
RECURSIVE LStrip(_)
LStrip(s) ==
  IF Len(s) > 0 /\ Head(s) \in Whitespace THEN LStrip(Tail(s)) ELSE s

RECURSIVE RStrip(_)
RStrip(s) ==
  IF Len(s) > 0 /\ s[Len(s)] \in Whitespace
    THEN RStrip(SubSeq(s, 1, Len(s) - 1)) ELSE s

Strip(s) == LStrip(RStrip(s))

\* The line filter of generate_content: a line stays when it holds no backtick
\* (the test for a backtick followed by ");" is implied by the test for a backtick).
KeepLine(line) == \A i \in 1..Len(line) : line[i] # BT

\* A mutation of the clean-up that removes the bare fence before the html fence.
CleanContentFenceOrder(raw) ==
  LET unfenced == Remove(Remove(raw, Fence), FenceHtml)
  IN Strip(Join(SelectSeq(Split(unfenced), KeepLine)))

\* The clean-up generate_content applies to choices[0].message.content.
CleanContent(raw) ==
  LET unfenced == Remove(Remove(raw, FenceHtml), Fence)
  IN Strip(Join(SelectSeq(Split(unfenced), KeepLine)))

(* ------------------------------ error pages ---------------------------- *)

RateLimitMsg ==
  <<"<h1>Error</h1><p>Rate limited by OpenRouter API. Please try again in a few moments.</p>">>

\* The diagnostic detail (the response body, the exception text) is elided.
InvalidStructureMsg == <<"<h1>Error</h1><p>Invalid API response structure: ...</p>">>

RequestFailedMsg == <<"<h1>Error</h1><p>API request failed: ...</p>">>

GenerateFailedMsg == <<"<h1>Error</h1><p>Failed to generate content: ...</p>">>

(* ------------------------------ cache record --------------------------- *)

\* The literal text json.dump writes around the content string; the timestamp
\* is never read back and is kept inside the closing literal.
JsonOpen == "{\"content\": \""

JsonClose == "\", \"timestamp\": \"<now>\"}"

\* A byte of a hole left by a write beyond the end of a truncated file.
NUL == "\\0"

\* JSON string escaping of one element.
EscapeChar(c) ==
  IF c = NL THEN <<"\\", "n">>
  ELSE IF c = "\t" THEN <<"\\", "t">>
  ELSE IF c = "\r" THEN <<"\\", "r">>
  ELSE IF c = "\"" THEN <<"\\", "\"">>
  ELSE IF c = "\\" THEN <<"\\", "\\">>
  ELSE <<c>>

RECURSIVE Escape(_)
Escape(s) == IF Len(s) = 0 THEN <<>> ELSE EscapeChar(Head(s)) \o Escape(Tail(s))

\* json.dump({'content': content, 'timestamp': ...}, f): the text written.
Dump(content) == <<JsonOpen>> \o Escape(content) \o <<JsonClose>>

\* The text between the literals is a JSON string body.
RECURSIVE WellEscaped(_)
WellEscaped(s) ==
  IF Len(s) = 0 THEN TRUE
  ELSE IF Head(s) = "\\"
    THEN /\ Len(s) >= 2
         /\ s[2] \in {"n", "t", "r", "\"", "\\"}
         /\ WellEscaped(SubSeq(s, 3, Len(s)))
    ELSE /\ Head(s) \notin {JsonOpen, JsonClose, NUL, "\"", NL, "\t", "\r"}
         /\ WellEscaped(Tail(s))

UnescapeChar(c) ==
  IF c = "n" THEN NL ELSE IF c = "t" THEN "\t" ELSE IF c = "r" THEN "\r" ELSE c

RECURSIVE Unescape(_)
Unescape(s) ==
  IF Len(s) = 0 THEN <<>>
  ELSE IF Head(s) = "\\"
    THEN <<UnescapeChar(s[2])>> \o Unescape(SubSeq(s, 3, Len(s)))
    ELSE <<Head(s)>> \o Unescape(Tail(s))

\* json.load(f) followed by cached_data['content'] succeeds on this file text.
Loads(data) ==
  /\ Len(data) >= 2
  /\ data[1] = JsonOpen
  /\ data[Len(data)] = JsonClose
  /\ WellEscaped(SubSeq(data, 2, Len(data) - 1))

LoadedContent(data) == Unescape(SubSeq(data, 2, Len(data) - 1))

\* File texts that are JSON documents other than the record json.dump writes:
\* an object without the content field, and a document that is not an object.
JsonEmptyObject == "{}"

JsonArray == "[]"

\* What json.load(f) followed by cached_data['content'] raises on a file text.
ReadError(data) ==
  IF Loads(data) THEN "none"
  ELSE IF data = <<JsonEmptyObject>> THEN "KeyError"
  ELSE IF data = <<JsonArray>> THEN "TypeError"
  ELSE "JSONDecodeError"

\* The exception classes of get_cached_content's except clause.
CaughtReadErrors == {"JSONDecodeError", "KeyError", "ValueError", "IOError"}

\* What get_cached_content comes back with: an optional string (Python's None
\* is [some |-> FALSE]), or an exception that escapes it.
None == [some |-> FALSE, val |-> <<>>, raised |-> FALSE]

Some(s) == [some |-> TRUE, val |-> s, raised |-> FALSE]

ReadRaised == [some |-> FALSE, val |-> <<>>, raised |-> TRUE]

\* A cache file: absent, or present with its text.
NoFile == [exists |-> FALSE, data |-> <<>>]

\* get_cached_content on the file of the path's key: None when the file is
\* absent or when reading it raises one of the caught exceptions.
get_cached_content(file) ==
  IF ~file.exists THEN None
  ELSE IF ReadError(file.data) = "none" THEN Some(LoadedContent(file.data))
  ELSE IF ReadError(file.data) \in CaughtReadErrors THEN None
  ELSE ReadRaised

\* The test "if cached_content:" in dynamic_page: None and the empty string are both false.
CacheHit(cached) == cached.some /\ cached.val # <<>>

(* ------------------------------ generation ----------------------------- *)

\* Exception classes derived from requests.exceptions.RequestException
\* (raise_for_status raises HTTPError, response.json() raises JSONDecodeError).
RequestExceptions == {"ConnectionError", "HTTPError", "JSONDecodeError"}

\* What generate_content hands back: content, or an exception that escapes it.
Returned(content) == [raised |-> FALSE, content |-> content]

Raised == [raised |-> TRUE, content |-> <<>>]

\* A mutation of the handlers that keeps only the RequestException clause.
ExceptRequestOnly(exc) ==
  IF exc \in RequestExceptions THEN Returned(RequestFailedMsg) ELSE Raised

\* The two except clauses that close generate_content's try block.
ExceptHandlers(exc) ==
  IF exc \in RequestExceptions
    THEN Returned(RequestFailedMsg)
    ELSE Returned(GenerateFailedMsg)

\* Texts the generation service may return as choices[0].message.content.
RawTexts ==
  { <<"x">>,
    <<"x", "y">>,
    <<BT, BT, BT>> }

\* What the outbound call comes back with.
Outcomes ==
  {[kind |-> k, text |-> <<>>] :
      k \in {"http429", "httpError", "connError", "emptyChoices", "noMessage"}}
  \cup {[kind |-> "ok", text |-> t] : t \in RawTexts}

ErrorKinds == {"httpError", "connError", "emptyChoices", "noMessage"}

\* generate_content from the answer of requests.post on.
generate_content(o) ==
  IF o.kind = "connError" THEN ExceptHandlers("ConnectionError")
  ELSE IF o.kind = "http429" THEN Returned(RateLimitMsg)
  ELSE IF o.kind = "httpError" THEN ExceptHandlers("HTTPError")
  ELSE IF o.kind = "emptyChoices" THEN Returned(InvalidStructureMsg)
  ELSE IF o.kind = "noMessage" THEN ExceptHandlers("KeyError")
  ELSE Returned(CleanContent(o.text))

\* A mutation of the handler that posts again after a 429.
AfterGenerateRetry(kind) == IF kind = "http429" THEN "generate" ELSE "persist"

\* Where dynamic_page goes once generate_content has returned: to cache_content,
\* whatever was generated.
AfterGenerate(kind) == "persist"

\* A mutation of cache_content without its except clause.
CacheErrorEscapes(err) == FALSE

\* cache_content catches the error of a failed open or write and logs it.
CacheErrorCaught(err) == err = "IOError"

(* -------------------------------- inputs ------------------------------- *)

Reqs == 1..NumReqs

Mozilla == <<"M", "o", "z", "i", "l", "l", "a">>

\* (User-Agent, remote address) of the clients.
ClientList ==
  << [ua |-> Mozilla, ip |-> <<10, 0, 0, 1>>],
     [ua |-> <<"g", "p", "t", "b", "o", "t">>, ip |-> <<10, 0, 0, 1>>],
     [ua |-> Mozilla, ip |-> <<69, 63, 190, 7>>] >>

Clients == Range(ClientList)

\* Request paths, without the leading slash.
UrlList ==
  << <<>>,
     RobotsTxt,
     <<"a">>,
     Html,
     <<"a", ".", "b">> \o Html,
     <<"a">> \o Html,
     <<"a", "/", "b">> \o Html,
     <<"a", "b", NL>> \o Html >>

Urls == Range(UrlList)

Keys == {get_cache_path(u) : u \in Urls}

\* The inputs of the specification of one contended page.
FlowClients == {[ua |-> Mozilla, ip |-> <<10, 0, 0, 1>>]}

FlowUrls == {<<"a", "/", "b">> \o Html}

\* Two valid paths that differ in a slash.
PathUrls == {<<"a", "/", "b">> \o Html, <<"a", "b">> \o Html}

\* The outcomes of the specification of one contended page: every way the
\* outbound call can fail, and one text.
FlowOutcomes ==
  {[kind |-> k, text |-> <<>>] :
      k \in {"http429", "httpError", "connError", "emptyChoices", "noMessage"}}
  \cup {[kind |-> "ok", text |-> <<"x">>]}

\* The one outcome of the specification of the filter.
FilterOutcomes == {[kind |-> "ok", text |-> <<"x">>]}

\* Clients that try the filter: agent strings in another case than the list's,
\* inside a longer string, missing, or close to an entry; addresses inside and
\* just outside a listed network, with too few groups, and of the other family.
DecideClientList ==
  << [ua |-> <<>>, ip |-> <<10, 0, 0, 1>>],
     [ua |-> Mozilla, ip |-> <<157, 240, 1>>],
     [ua |-> <<"S", "l", "u", "r">>, ip |-> <<69, 63, 192, 1>>],
     [ua |-> Mozilla, ip |-> <<10755, 10368, 0, 0, 0, 0, 0, 1>>],
     [ua |-> <<"g", "p", "t", "B", "O", "T">>, ip |-> <<10, 0, 0, 1>>],
     [ua |-> <<"M", "y", "-", "S", "c", "r", "a", "p", "e", "r", "/", "1">>, ip |-> <<10, 0, 0, 1>>],
     [ua |-> <<"b", "o", "t">>, ip |-> <<157, 240, 1>>],
     [ua |-> Mozilla, ip |-> <<69, 63, 190, 7>>],
     [ua |-> <<>>, ip |-> <<157, 240, 3, 4>>] >>

DecideClients == Range(DecideClientList)

\* The routes of the specification of the filter's decision.
DecideUrls == {RobotsTxt, <<"a">> \o Html}

\* Texts of the generation service with code fences, stray backticks, blank
\* margins and characters that JSON escapes.
CleanTextList ==
  << FenceHtml \o <<"x", NL, BT, "y", NL>> \o Fence,
     <<"x", NL, BT, "y", NL, "z">>,
     <<" ", "\"", "\t">>,
     <<BT>> \o FenceHtml \o <<BT, BT>> >>

CleanTexts == Range(CleanTextList)

\* The outcomes of the specification of successful generations.
CleanOutcomes == {[kind |-> "ok", text |-> t] : t \in CleanTexts}

\* Texts of a cache file that are not a record: an empty file and the start of
\* a record (a write that failed), bytes that are no JSON, an object without
\* the content field, a JSON document that is not an object.
BadRecords ==
  { <<>>,
    <<JsonOpen, "x">>,
    <<NUL>>,
    <<JsonEmptyObject>>,
    <<JsonArray>> }

(* -------------------------------- state -------------------------------- *)

VARIABLES
  pc,        \* where each request handler is
  ua,        \* the request's User-Agent header
  ip,        \* the request's remote address
  url,       \* the request's path
  prior,     \* the requests already answered when this one arrived
  files,     \* the cache directory: file name -> file
  readState, \* what get_cached_content found: "absent", "complete" or "partial"
  readDuring,\* the requests that had the file open for writing at that read
  calls,     \* outbound calls the request has made
  reads,     \* cache reads the request has made
  writes,    \* calls of cache_content the request has made
  outcome,   \* what the outbound call came back with
  gen,       \* the content generate_content returned
  wpos,      \* file offset of the request's open cache file
  fault,     \* whether the request's cache write raised
  status,    \* the response's status code, 0 before the response
  body,      \* the response's content
  headers,   \* the response's header list
  raw,       \* the text the generation service returned
  before,    \* what get_cached_content would have returned when the request opened its cache file
  sole       \* no other request has written the request's cache file since the request opened it

inputs == <<ua, ip, url, prior>>

vars == <<pc, ua, ip, url, prior, files, readState, readDuring, calls, reads, writes,
          outcome, gen, wpos, fault, status, body, headers, raw, before, sole>>

\* No request has arrived.
InitRequests ==
  /\ pc = [r \in Reqs |-> "idle"]
  /\ ua = [r \in Reqs |-> <<>>]
  /\ ip = [r \in Reqs |-> <<>>]
  /\ url = [r \in Reqs |-> <<>>]
  /\ prior = [r \in Reqs |-> {}]
  /\ readState = [r \in Reqs |-> "none"]
  /\ readDuring = [r \in Reqs |-> {}]
  /\ calls = [r \in Reqs |-> 0]
  /\ reads = [r \in Reqs |-> 0]
  /\ writes = [r \in Reqs |-> 0]
  /\ outcome = [r \in Reqs |-> "none"]
  /\ gen = [r \in Reqs |-> <<>>]
  /\ wpos = [r \in Reqs |-> 0]
  /\ fault = [r \in Reqs |-> FALSE]
  /\ status = [r \in Reqs |-> 0]
  /\ body = [r \in Reqs |-> <<>>]
  /\ headers = [r \in Reqs |-> <<>>]
  /\ raw = [r \in Reqs |-> <<>>]
  /\ before = [r \in Reqs |-> None]
  /\ sole = [r \in Reqs |-> FALSE]

\* The server starts with an empty cache directory.
Init ==
  /\ InitRequests
  /\ files = [k \in Keys |-> NoFile]

\* The handler returns: the response leaves with this status and content.
Answer(r, code, content) ==
  /\ pc' = [pc EXCEPT ![r] = "done"]
  /\ status' = [status EXCEPT ![r] = code]
  /\ body' = [body EXCEPT ![r] = content]
  /\ headers' = [headers EXCEPT ![r] = Response(code).headers]

\* The server starts on a cache directory (it outlives the process and is
\* shared with whatever else writes there) in which the page's file holds
\* something that is not a record.
InitRecover ==
  /\ InitRequests
  /\ \E bad \in BadRecords :
       files = [k \in Keys |->
                  IF \E u \in FlowUrls : k = get_cache_path(u)
                    THEN [exists |-> TRUE, data |-> bad]
                    ELSE NoFile]

\* Flask's choice of view function: the two static rules win over the path rule.
Route(u) ==
  IF u = <<>> THEN "index" ELSE IF u = RobotsTxt THEN "robots" ELSE "dynamic_page"

\* dynamic_page up to its cache lookup: the status it answers with at once, or 0.
EarlyStatus(u) ==
  IF ~EndsWith(u, Html) THEN 302
  ELSE IF ~ValidPath(BasePath(u)) THEN 400
  ELSE 0

\* A request of one of the clients for one of the paths arrives: block_crawlers,
\* then the view function up to its first access to the cache.
Receive(r, clients, urls) ==
  /\ pc[r] = "idle"
  /\ \E c \in clients, u \in urls :
       /\ ua' = [ua EXCEPT ![r] = c.ua]
       /\ ip' = [ip EXCEPT ![r] = c.ip]
       /\ url' = [url EXCEPT ![r] = u]
       /\ prior' = [prior EXCEPT ![r] = {q \in Reqs : pc[q] = "done"}]
       /\ IF block_crawlers(c.ua, c.ip) THEN Answer(r, 403, <<"Forbidden">>)
          ELSE IF Route(u) = "index" THEN Answer(r, 200, <<"index.html">>)
          ELSE IF Route(u) = "robots" THEN Answer(r, 200, <<"robots.txt">>)
          ELSE IF EarlyStatus(u) = 302 THEN Answer(r, 302, <<"Found">>)
          ELSE IF EarlyStatus(u) = 400 THEN Answer(r, 400, <<"Invalid path">>)
          ELSE /\ pc' = [pc EXCEPT ![r] = "lookup"]
               /\ UNCHANGED <<status, body, headers>>
  /\ UNCHANGED <<files, readState, readDuring, calls, reads, writes, outcome, gen,
                 wpos, fault, raw, before, sole>>

\* What a reader finds in a file.
FileState(file) ==
  IF ~file.exists THEN "absent" ELSE IF Loads(file.data) THEN "complete" ELSE "partial"

\* dynamic_page's cache lookup: get_cached_content(path) and the hit test.
Lookup(r) ==
  /\ pc[r] = "lookup"
  /\ LET file == files[get_cache_path(url[r])]
         cached == get_cached_content(file)
     IN /\ reads' = [reads EXCEPT ![r] = @ + 1]
        /\ readState' = [readState EXCEPT ![r] = FileState(file)]
        /\ readDuring' = [readDuring EXCEPT ![r] =
              {q \in Reqs : pc[q] = "writing"
                              /\ get_cache_path(url[q]) = get_cache_path(url[r])}]
        /\ IF cached.raised THEN Answer(r, 500, <<"Internal Server Error">>)
           ELSE IF CacheHit(cached) THEN Answer(r, 200, cached.val)
           ELSE /\ pc' = [pc EXCEPT ![r] = "generate"]
                /\ UNCHANGED <<status, body, headers>>
  /\ UNCHANGED <<inputs, files, calls, writes, outcome, gen, wpos, fault, raw, before,
                 sole>>

\* A mutation of the call that waits while another request is generating for
\* the same cache file.
CallGeneratorOncePerKey(r) ==
  /\ pc[r] = "generate"
  /\ \A q \in Reqs \ {r} :
       pc[q] = "waiting" => get_cache_path(url[q]) # get_cache_path(url[r])
  /\ calls' = [calls EXCEPT ![r] = @ + 1]
  /\ pc' = [pc EXCEPT ![r] = "waiting"]
  /\ UNCHANGED <<inputs, files, readState, readDuring, reads, writes, outcome, gen,
                 wpos, fault, status, body, headers, raw, before, sole>>

\* generate_content posts the prompt to the generation service.
CallGenerator(r) ==
  /\ pc[r] = "generate"
  /\ calls' = [calls EXCEPT ![r] = @ + 1]
  /\ pc' = [pc EXCEPT ![r] = "waiting"]
  /\ UNCHANGED <<inputs, files, readState, readDuring, reads, writes, outcome, gen,
                 wpos, fault, status, body, headers, raw, before, sole>>

\* The outbound call comes back with one of the outcomes and generate_content
\* returns (or raises).
Reply(r, outcomes) ==
  /\ pc[r] = "waiting"
  /\ \E o \in outcomes :
       LET res == generate_content(o)
       IN /\ outcome' = [outcome EXCEPT ![r] = o.kind]
          /\ raw' = [raw EXCEPT ![r] = o.text]
          /\ IF res.raised
               THEN Answer(r, 500, <<"Internal Server Error">>) /\ UNCHANGED gen
               ELSE /\ gen' = [gen EXCEPT ![r] = res.content]
                    /\ pc' = [pc EXCEPT ![r] = AfterGenerate(o.kind)]
                    /\ UNCHANGED <<status, body, headers>>
  /\ UNCHANGED <<inputs, files, readState, readDuring, calls, reads, writes, wpos,
                 fault, before, sole>>

\* The end of dynamic_page after cache_content: the page with the content.
\* An error cache_content does not catch becomes Flask's 500 response.
AnswerAfterCache(r, err) ==
  IF err = "none" \/ CacheErrorCaught(err)
    THEN Answer(r, 200, gen[r])
    ELSE Answer(r, 500, <<"Internal Server Error">>)

\* Two requests whose paths have the same cache file.
SameFile(q, r) == get_cache_path(url[q]) = get_cache_path(url[r])

\* A mutation of the open that keeps what the file holds (mode 'r+' on a file
\* that exists) instead of truncating it.
CacheOpenKeep(r) ==
  /\ pc[r] = "persist"
  /\ writes' = [writes EXCEPT ![r] = @ + 1]
  /\ before' = [before EXCEPT ![r] = get_cached_content(files[get_cache_path(url[r])])]
  /\ \/ /\ files' = [files EXCEPT ![get_cache_path(url[r])] =
                        [exists |-> TRUE, data |-> @.data]]
        /\ sole' = [q \in Reqs |-> IF q = r THEN TRUE ELSE sole[q] /\ ~SameFile(q, r)]
        /\ wpos' = [wpos EXCEPT ![r] = 0]
        /\ pc' = [pc EXCEPT ![r] = "writing"]
        /\ UNCHANGED <<fault, status, body, headers>>
     \/ /\ fault' = [fault EXCEPT ![r] = TRUE]
        /\ AnswerAfterCache(r, "IOError")
        /\ sole' = [sole EXCEPT ![r] = TRUE]
        /\ UNCHANGED <<files, wpos>>
  /\ UNCHANGED <<inputs, readState, readDuring, calls, reads, outcome, gen, raw>>

\* cache_content opens the cache file with mode 'w': the file is created or
\* truncated, or the open raises IOError and nothing is written.
CacheOpen(r) ==
  /\ pc[r] = "persist"
  /\ writes' = [writes EXCEPT ![r] = @ + 1]
  /\ before' = [before EXCEPT ![r] = get_cached_content(files[get_cache_path(url[r])])]
  /\ \/ /\ files' = [files EXCEPT ![get_cache_path(url[r])] =
                        [exists |-> TRUE, data |-> <<>>]]
        /\ sole' = [q \in Reqs |-> IF q = r THEN TRUE ELSE sole[q] /\ ~SameFile(q, r)]
        /\ wpos' = [wpos EXCEPT ![r] = 0]
        /\ pc' = [pc EXCEPT ![r] = "writing"]
        /\ UNCHANGED <<fault, status, body, headers>>
     \/ /\ fault' = [fault EXCEPT ![r] = TRUE]
        /\ AnswerAfterCache(r, "IOError")
        /\ sole' = [sole EXCEPT ![r] = TRUE]
        /\ UNCHANGED <<files, wpos>>
  /\ UNCHANGED <<inputs, readState, readDuring, calls, reads, outcome, gen, raw>>

\* write(2) of chunk at offset pos: bytes there are replaced, the file grows as
\* needed, a gap is filled with zero bytes.
WriteAt(data, pos, chunk) ==
  LET n == IF Len(data) > pos + Len(chunk) THEN Len(data) ELSE pos + Len(chunk)
  IN [i \in 1..n |->
        IF i > pos /\ i <= pos + Len(chunk) THEN chunk[i - pos]
        ELSE IF i <= Len(data) THEN data[i]
        ELSE NUL]

\* json.dump into the open file: the buffered text reaches the file one buffer
\* at a time, the last of it when the with block closes the file; a write may
\* raise IOError (disk full), which leaves the file as written so far.
CacheWrite(r) ==
  /\ pc[r] = "writing"
  /\ LET k == get_cache_path(url[r])
         text == Dump(gen[r])
         upto == IF wpos[r] + BufSize < Len(text) THEN wpos[r] + BufSize ELSE Len(text)
         chunk == SubSeq(text, wpos[r] + 1, upto)
     IN \/ /\ files' = [files EXCEPT ![k].data = WriteAt(@, wpos[r], chunk)]
           /\ sole' = [q \in Reqs |-> IF q = r THEN sole[q] ELSE sole[q] /\ ~SameFile(q, r)]
           /\ wpos' = [wpos EXCEPT ![r] = upto]
           /\ IF upto = Len(text) THEN AnswerAfterCache(r, "none")
              ELSE UNCHANGED <<pc, status, body, headers>>
           /\ UNCHANGED fault
        \/ /\ fault' = [fault EXCEPT ![r] = TRUE]
           /\ AnswerAfterCache(r, "IOError")
           /\ UNCHANGED <<files, wpos, sole>>
  /\ UNCHANGED <<inputs, readState, readDuring, calls, reads, writes, outcome, gen, raw,
                 before>>

\* The server under requests of every client for every path, the generation
\* service answering in every way.
Next ==
  \E r \in Reqs :
    \/ Receive(r, Clients, Urls)
    \/ Lookup(r)
    \/ CallGenerator(r)
    \/ Reply(r, Outcomes)
    \/ CacheOpen(r)
    \/ CacheWrite(r)

Spec == Init /\ [][Next]_vars

\* The server under requests of one allowed client that all contend for one
\* page, the generation service failing in every way or answering with a text.
NextFlow ==
  \E r \in Reqs :
    \/ Receive(r, FlowClients, FlowUrls)
    \/ Lookup(r)
    \/ CallGenerator(r)
    \/ Reply(r, FlowOutcomes)
    \/ CacheOpen(r)
    \/ CacheWrite(r)

SpecFlow == Init /\ [][NextFlow]_vars

\* The server under requests of every client for every path, the generation
\* service always answering with the same text.
NextFilter ==
  \E r \in Reqs :
    \/ Receive(r, Clients, Urls)
    \/ Lookup(r)
    \/ CallGenerator(r)
    \/ Reply(r, FilterOutcomes)
    \/ CacheOpen(r)
    \/ CacheWrite(r)

SpecFilter == Init /\ [][NextFilter]_vars

\* The server under requests of one allowed client for one page, the generation
\* service answering every call with a text.
NextClean ==
  \E r \in Reqs :
    \/ Receive(r, FlowClients, FlowUrls)
    \/ Lookup(r)
    \/ CallGenerator(r)
    \/ Reply(r, CleanOutcomes)
    \/ CacheOpen(r)
    \/ CacheWrite(r)

SpecClean == Init /\ [][NextClean]_vars

\* The server under requests of one allowed client for two valid paths.
NextPaths ==
  \E r \in Reqs :
    \/ Receive(r, FlowClients, PathUrls)
    \/ Lookup(r)
    \/ CallGenerator(r)
    \/ Reply(r, FilterOutcomes)
    \/ CacheOpen(r)
    \/ CacheWrite(r)

SpecPaths == Init /\ [][NextPaths]_vars

\* The server under requests of the clients that try the filter.
NextDecide ==
  \E r \in Reqs :
    \/ Receive(r, DecideClients, DecideUrls)
    \/ Lookup(r)
    \/ CallGenerator(r)
    \/ Reply(r, FilterOutcomes)
    \/ CacheOpen(r)
    \/ CacheWrite(r)

SpecDecide == Init /\ [][NextDecide]_vars

\* The server under requests of one allowed client for one page whose cache
\* file holds something that is not a record when the server starts.
SpecRecover == InitRecover /\ [][NextFlow]_vars

\* A request handler runs in a thread of its own and is never held back for
\* ever: each step of its own that it can take, it takes. When a request arrives
\* and when, if ever, the generation service answers is up to the outside:
\* requests.post is given no timeout and waits for as long as the service is silent.
HandlerFairness ==
  \A r \in Reqs :
    /\ WF_vars(Lookup(r))
    /\ WF_vars(CallGenerator(r))
    /\ WF_vars(CacheOpen(r))
    /\ WF_vars(CacheWrite(r))

SpecLive == Init /\ [][NextFlow]_vars /\ HandlerFairness

(* ------------------------------- properties ---------------------------- *)

\* The clients whose User-Agent or address is denylisted.
DeniedClients ==
  Range(SelectSeq(ClientList, LAMBDA c : UaBlocked(c.ua) \/ is_meta_ip(c.ip)))

Denied(r) == [ua |-> ua[r], ip |-> ip[r]] \in DeniedClients

\* Every character of a non-empty base path is in [a-zA-Z0-9-_/].
StrictlyValid(base) ==
  /\ Len(base) >= 1
  /\ \A i \in 1..Len(base) : base[i] \in StrictChars

\* The paths that go to dynamic_page and end in .html.
HtmlUrlList ==
  SelectSeq(UrlList, LAMBDA u : Route(u) = "dynamic_page" /\ EndsWith(u, Html))

HtmlUrls == Range(HtmlUrlList)

\* Those of them whose base path is valid.
ValidUrls == Range(SelectSeq(HtmlUrlList, LAMBDA u : StrictlyValid(BasePath(u))))

\* The request went to dynamic_page with the .html suffix and was not denied.
DynamicRequest(r) == pc[r] # "idle" /\ ~Denied(r) /\ url[r] \in HtmlUrls

\* An allowed request with a valid path.
PipelineRequest(r) == pc[r] # "idle" /\ ~Denied(r) /\ url[r] \in ValidUrls

KeyOf(r) == get_cache_path(url[r])

\* C1: an allowed, valid request whose outbound call is answered 429 responds
\* with the rate-limit page and makes no store write, and no request is served
\* the rate-limit page from the cache.
C1_ThrottledNotCached ==
  /\ \A r \in Reqs :
       PipelineRequest(r) /\ outcome[r] = "http429" =>
         /\ writes[r] = 0
         /\ pc[r] = "done" => status[r] = 200 /\ body[r] = RateLimitMsg
  /\ \A r \in Reqs :
       pc[r] = "done" /\ calls[r] = 0 => body[r] # RateLimitMsg

\* C2: every step of an allowed, valid request whose generation failed for a
\* reason other than 429 leaves the store as it was.
C2_ErrorNotCached ==
  [][\A r \in Reqs :
       /\ PipelineRequest(r)
       /\ outcome[r] \in ErrorKinds
       /\ pc'[r] # pc[r] \/ wpos'[r] # wpos[r]
       => files' = files]_vars

\* C3: when the first request for a path found an empty cache, generated
\* successfully and was answered, a later request for that path, with no other
\* write to the key, makes no outbound call and no store write and is answered
\* with the first request's content.
C3_SecondRequestFromCache ==
  \A r1, r2 \in Reqs :
    ( /\ PipelineRequest(r1) /\ PipelineRequest(r2)
      /\ url[r1] = url[r2]
      /\ r1 \in prior[r2]
      /\ readState[r1] = "absent" /\ outcome[r1] = "ok" /\ ~fault[r1]
      /\ \A q \in Reqs \ {r1, r2} : pc[q] # "idle" /\ KeyOf(q) = KeyOf(r1) => writes[q] = 0 )
    => /\ calls[r1] = 1 /\ writes[r1] = 1
       /\ calls[r2] = 0 /\ writes[r2] = 0
       /\ pc[r2] = "done" => status[r2] = 200 /\ body[r2] = gen[r1]

\* C4: a request whose User-Agent or address is denylisted is answered 403 at
\* once, on any route, with no cache read, no cache write and no outbound call,
\* and the step that answers it leaves the store unchanged.
C4_DeniedNoSideEffects ==
  /\ [](\A r \in Reqs :
          pc[r] # "idle" /\ Denied(r) =>
            /\ pc[r] = "done" /\ status[r] = 403
            /\ reads[r] = 0 /\ writes[r] = 0 /\ calls[r] = 0)
  /\ [][\A r \in Reqs :
          pc[r] = "idle" /\ pc'[r] # "idle" /\ Denied(r)' => files' = files]_vars

C4_Witness ==
  \E r \in Reqs :
    /\ pc[r] = "done" /\ status[r] = 403
    /\ ip[r] = <<69, 63, 190, 7>> /\ ua[r] = Mozilla
    /\ Route(url[r]) = "dynamic_page"
    /\ \E k \in Keys : files[k].exists

\* C5: an allowed request to a .html path whose base path is empty or holds a
\* character outside [a-zA-Z0-9-_/] is answered 400 with no cache read, no
\* cache write and no outbound call.
C5_InvalidPathRejected ==
  \A r \in Reqs :
    DynamicRequest(r) /\ url[r] \notin ValidUrls =>
      /\ pc[r] = "done" /\ status[r] = 400
      /\ reads[r] = 0 /\ writes[r] = 0 /\ calls[r] = 0

\* C6: a cache read made while another request has the same file open for
\* writing never finds the file truncated, empty or half written (no storage
\* fault having occurred).
C6_NoPartialRead ==
  \A r \in Reqs :
    readDuring[r] # {} /\ (\A q \in Reqs : ~fault[q]) => readState[r] # "partial"

\* C7: once all of two or more requests that wrote the same key have been
\* answered, none of them after a storage fault, the key's file is a complete
\* record whose content is the content one of them wrote.
C7_LastWriterWins ==
  \A k \in Keys :
    LET W == {q \in Reqs : pc[q] # "idle" /\ KeyOf(q) = k /\ writes[q] > 0}
    IN Cardinality(W) >= 2 /\ (\A q \in W : pc[q] = "done" /\ ~fault[q]) =>
         /\ files[k].exists
         /\ Loads(files[k].data)
         /\ LoadedContent(files[k].data) \in {gen[q] : q \in W}

\* C8: a request makes at most one outbound call and at most one store write.
C8_AtMostOnce ==
  \A r \in Reqs : calls[r] <= 1 /\ writes[r] <= 1

C8_Witness ==
  \E r \in Reqs :
    pc[r] = "done" /\ outcome[r] = "http429" /\ calls[r] = 1 /\ writes[r] = 1

\* C9: an allowed request with a valid path that has been answered was answered
\* 200, with the generated content when it generated, whatever the outbound
\* call came back with; no request is answered 500.
C9_AlwaysPage ==
  /\ \A r \in Reqs :
       PipelineRequest(r) /\ pc[r] = "done" =>
         /\ status[r] = 200
         /\ calls[r] = 1 => body[r] = gen[r]
  /\ \A r \in Reqs : status[r] # 500

C9_Witness ==
  \E r \in Reqs :
    /\ PipelineRequest(r) /\ pc[r] = "done" /\ status[r] = 200
    /\ outcome[r] = "noMessage" /\ body[r] = GenerateFailedMsg

\* C10: a request whose store write raised is answered 200 with exactly the
\* content it generated, as is a request whose write went through.
C10_WriteFailureServes ==
  \A r \in Reqs :
    /\ fault[r] => pc[r] = "done"
    /\ pc[r] = "done" /\ writes[r] = 1 => status[r] = 200 /\ body[r] = gen[r]

C10_Witness ==
  \E r \in Reqs :
    /\ fault[r] /\ pc[r] = "done" /\ outcome[r] = "ok" /\ gen[r] = <<"x">>
    /\ status[r] = 200 /\ body[r] = <<"x">>
    /\ files[KeyOf(r)].exists /\ ~Loads(files[KeyOf(r)].data)

\* An allowed request to dynamic_page whose path ends in .html and whose base
\* path passes strict validation.
StrictRequest(r) ==
  /\ pc[r] # "idle" /\ ~Denied(r)
  /\ Route(url[r]) = "dynamic_page" /\ EndsWith(url[r], Html)
  /\ StrictlyValid(BasePath(url[r]))

\* C11: two allowed requests for distinct paths that both pass strict validation
\* have distinct cache keys, and a request answered from the cache without an
\* outbound call is answered with content that a request for its own path stored.
C11_DistinctPathsDistinctKeys ==
  /\ \A r1, r2 \in Reqs :
       StrictRequest(r1) /\ StrictRequest(r2) /\ url[r1] # url[r2] =>
         KeyOf(r1) # KeyOf(r2)
  /\ \A r \in Reqs :
       StrictRequest(r) /\ pc[r] = "done" /\ calls[r] = 0 =>
         \E q \in Reqs \ {r} :
           pc[q] # "idle" /\ url[q] = url[r] /\ writes[q] = 1 /\ gen[q] = body[r]

\* C12: a request that has made its outbound call is eventually answered, also
\* when the generation service never answers the call.
C12_GenerateReturns ==
  \A r \in Reqs : (pc[r] = "waiting") ~> (pc[r] = "done")

\* text with every occurrence of pat from index i on cut out, found left to right.
RECURSIVE CutFrom(_, _, _)
CutFrom(text, pat, i) ==
  IF i + Len(pat) - 1 > Len(text) THEN SubSeq(text, i, Len(text))
  ELSE IF \A j \in 1..Len(pat) : text[i + j - 1] = pat[j]
    THEN CutFrom(text, pat, i + Len(pat))
    ELSE <<text[i]>> \o CutFrom(text, pat, i + 1)

\* The line, counted from 1, that position p of the text lies on; a line break
\* lies on the line it ends.
LineOf(text, p) == Cardinality({q \in 1..(p - 1) : text[q] = NL}) + 1

\* The lines of the text that hold no backtick.
CleanLines(text) ==
  {l \in 1..LineOf(text, Len(text) + 1) :
     \A p \in 1..Len(text) : LineOf(text, p) = l => text[p] # BT}

\* The text without its lines that hold a backtick: the characters of the other
\* lines, and the line breaks between two of them.
WithoutBacktickLines(text) ==
  LET clean == CleanLines(text)
      stays(p) ==
        /\ LineOf(text, p) \in clean
        /\ text[p] = NL => \E l \in clean : l > LineOf(text, p)
      at == SelectSeq([p \in 1..Len(text) |-> p], stays)
  IN [i \in 1..Len(at) |-> text[at[i]]]

\* The text from its first to its last character that is not white space.
Trimmed(text) ==
  LET ink == {p \in 1..Len(text) : text[p] \notin {" ", "\t", "\r", NL}}
  IN IF ink = {} THEN <<>>
     ELSE SubSeq(text, CHOOSE p \in ink : \A q \in ink : p <= q,
                       CHOOSE p \in ink : \A q \in ink : p >= q)

\* The html fences cut out, then the bare fences, then the lines with a backtick
\* dropped, then the margins trimmed.
CleanedUp(text) ==
  Trimmed(WithoutBacktickLines(CutFrom(CutFrom(text, FenceHtml, 1), Fence, 1)))

\* C13: the content a successful generation returns is the service's text with
\* the fence markers removed, then the lines that still hold a backtick dropped,
\* then trimmed; that content is what the response serves and what the completed,
\* undisturbed store write leaves in the file; no backtick is returned, served or
\* stored.
C13_CleanedContent ==
  /\ \A r \in Reqs :
       outcome[r] = "ok" =>
         /\ gen[r] = CleanedUp(raw[r])
         /\ \A i \in 1..Len(gen[r]) : gen[r][i] # BT
         /\ pc[r] = "done" =>
              /\ status[r] = 200 /\ body[r] = gen[r]
              /\ \A i \in 1..Len(body[r]) : body[r][i] # BT
         /\ pc[r] = "done" /\ ~fault[r] /\ sole[r] =>
              /\ Loads(files[KeyOf(r)].data)
              /\ LoadedContent(files[KeyOf(r)].data) = CleanedUp(raw[r])
  /\ \A k \in Keys : \A i \in 1..Len(files[k].data) : files[k].data[i] # BT

C13_Witness ==
  \E r \in Reqs :
    /\ pc[r] = "done" /\ outcome[r] = "ok" /\ ~fault[r] /\ sole[r]
    /\ raw[r] = FenceHtml \o <<"x", NL, BT, "y", NL>> \o Fence
    /\ body[r] = <<"x">>
    /\ LoadedContent(files[KeyOf(r)].data) = <<"x">>

\* Two characters that are the same letter in either case, or the same character.
SameLetter(a, b) ==
  \/ a = b
  \/ \E i \in 1..Len(UpperChars) : {a, b} = {UpperChars[i], LowerChars[i]}

\* The agent string holds a denylist entry somewhere, case aside.
AgentListed(agent) ==
  \E k \in 1..Len(BLOCKED_USER_AGENTS) :
    LET entry == BLOCKED_USER_AGENTS[k]
    IN \E at \in 0..(Len(agent) - Len(entry)) :
         \A j \in 1..Len(entry) : SameLetter(agent[at + j], entry[j])

\* The address is a dotted quad that lies in a denylisted network: by its
\* leading 24 bits (no listed prefix is longer) it is at or above the network's
\* first address and below the first address after the network.
AddressListed(address) ==
  /\ Len(address) = 4
  /\ \A i \in 1..4 : address[i] >= 0 /\ address[i] <= 255
  /\ \E k \in 1..Len(META_IP_RANGES) :
       LET n == META_IP_RANGES[k]
           first == n.net[1] * 65536 + n.net[2] * 256 + n.net[3]
           a == address[1] * 65536 + address[2] * 256 + address[3]
       IN a >= first /\ a < first + 2 ^ (24 - n.prefix)

\* The clients the claim's rule denies.
DecideDenied ==
  Range(SelectSeq(DecideClientList,
                  LAMBDA c : AgentListed(c.ua) \/ AddressListed(c.ip)))

\* C14: a request is answered 403 by the filter exactly when its agent string
\* holds a denylist entry, case aside, or its address parses and lies in a
\* denylisted network; an address that does not parse and a missing agent string
\* deny nothing.
C14_FilterDecision ==
  \A r \in Reqs :
    pc[r] # "idle" =>
      /\ status[r] = 403 <=> [ua |-> ua[r], ip |-> ip[r]] \in DecideDenied
      /\ ua[r] \in {<<>>, Mozilla} /\ Len(ip[r]) \notin {4, 8} => status[r] # 403
      /\ status[r] = 403 => pc[r] = "done" /\ reads[r] = 0

C14_Witness ==
  \E r1, r2 \in Reqs :
    /\ ua[r1] = Mozilla /\ ip[r1] = <<157, 240, 1>>
    /\ pc[r1] = "done" /\ status[r1] = 200 /\ calls[r1] = 1
    /\ ua[r2] = <<"M", "y", "-", "S", "c", "r", "a", "p", "e", "r", "/", "1">>
    /\ pc[r2] = "done" /\ status[r2] = 403

\* The hardening headers with a fixed short value.
HardeningHeaders ==
  { [name |-> "X-Content-Type-Options", value |-> "nosniff"],
    [name |-> "X-Frame-Options", value |-> "DENY"],
    [name |-> "X-Robots-Tag", value |-> "noindex, nofollow, noarchive"],
    [name |-> "X-Crawler", value |-> "no-crawl"],
    [name |-> "CommonCrawl", value |-> "no-crawl"] }

\* C15: every response, whatever its status, carries the no-sniff, deny-framing,
\* crawler-discouragement and the two no-crawl headers with their values and a
\* content security policy, each of them once.
C15_HardeningOnEveryResponse ==
  \A r \in Reqs :
    status[r] # 0 =>
      /\ \A h \in HardeningHeaders : \E i \in 1..Len(headers[r]) : headers[r][i] = h
      /\ \E i \in 1..Len(headers[r]) : headers[r][i].name = "Content-Security-Policy"
      /\ \A i, j \in 1..Len(headers[r]) :
           headers[r][i].name = headers[r][j].name => i = j

C15_Witness ==
  \E r1, r2 \in Reqs :
    /\ status[r1] = 403
    /\ \A h \in HardeningHeaders : \E i \in 1..Len(headers[r1]) : headers[r1][i] = h
    /\ status[r2] = 302
    /\ \A h \in HardeningHeaders : \E i \in 1..Len(headers[r2]) : headers[r2][i] = h
    /\ \E i \in 1..Len(headers[r2]) : headers[r2][i].name = "Location"

\* C16: once a request's store write has completed without a storage failure,
\* and for as long as no other request writes the file after the request opened
\* it, reading the key returns exactly the content the request put, the empty
\* string included, whatever the file held when the request opened it.
C16_PutGetRoundTrip ==
  \A r \in Reqs :
    pc[r] = "done" /\ writes[r] = 1 /\ ~fault[r] /\ sole[r] =>
      get_cached_content(files[KeyOf(r)]) = Some(gen[r])

C16_Witness ==
  \E r \in Reqs :
    /\ pc[r] = "done" /\ writes[r] = 1 /\ ~fault[r] /\ sole[r]
    /\ before[r] = Some(<<"x", NL, "z">>)
    /\ gen[r] = <<>>
    /\ get_cached_content(files[KeyOf(r)]) = Some(<<>>)

\* C17: a request that missed the cache can always make its outbound call, also
\* while another request for the same path, which missed as well and has not
\* written yet, is waiting for its own call: nothing holds the second call back.
C17_NoInFlightDeduplication ==
  \A r1, r2 \in Reqs :
    ( /\ r1 # r2
      /\ pc[r1] = "generate" /\ readState[r1] = "absent"
      /\ pc[r2] = "waiting" /\ readState[r2] = "absent"
      /\ PipelineRequest(r1) /\ PipelineRequest(r2) /\ url[r1] = url[r2] )
    => ENABLED CallGenerator(r1)

C17_Witness ==
  \E r1, r2 \in Reqs :
    /\ r1 # r2 /\ url[r1] = url[r2] /\ PipelineRequest(r1) /\ PipelineRequest(r2)
    /\ readState[r1] = "absent" /\ readState[r2] = "absent"
    /\ pc[r1] = "waiting" /\ pc[r2] = "waiting"
    /\ calls[r1] = 1 /\ calls[r2] = 1
    /\ writes[r1] = 0 /\ writes[r2] = 0
    /\ ~files[KeyOf(r1)].exists

\* C18: when a request's store write failed and the key held a readable entry
\* when the request opened the file, reading the key, no other request having
\* written the file since, still returns that entry's content.
C18_FailedPutKeepsEntry ==
  \A r \in Reqs :
    fault[r] /\ sole[r] /\ before[r].some =>
      get_cached_content(files[KeyOf(r)]) = before[r]

\* C19: an allowed, valid request whose cache lookup found a file that is not
\* a well-formed record is not answered with an error; it makes exactly one
\* outbound call and one store write and is answered 200; and once its write
\* has completed without a storage failure, no other request having written the
\* file since, reading the key returns the content it generated.
C19_BadRecordRegenerated ==
  \A r \in Reqs :
    PipelineRequest(r) /\ readState[r] = "partial" =>
      /\ status[r] # 500
      /\ pc[r] = "done" => calls[r] = 1 /\ writes[r] = 1 /\ status[r] = 200
      /\ pc[r] = "done" /\ ~fault[r] /\ sole[r] =>
           get_cached_content(files[KeyOf(r)]) = Some(gen[r])

====
